---- MODULE Spec2Model ----
(***************************************************************************)
(* Model of get_forecast.py: one run of main() from the entry of its try   *)
(* block (arguments parsed, Cost Explorer client created) to process exit. *)
(* The clock date, the --type value and the outcome of every billing query *)
(* are the inputs.  Dates are records [y, m, d]; strftime output, labels   *)
(* and printed lines are strings built the way the code builds them.       *)
(* Amounts are integers and pct_change is kept as an exact fraction.       *)
(***************************************************************************)
EXTENDS Integers, Sequences, FiniteSets, TLC

\* ---- bounds of the model ----
\* first clock year and number of clock years explored
BaseYear == 2023
NumYears == 2
\* query amounts range over -MaxAmt..MaxAmt plus the SampleAmounts
MaxAmt == 2

Years == BaseYear .. (BaseYear + NumYears - 1)
SampleAmounts == {900, 1000, 12345}
Amounts == (-MaxAmt .. MaxAmt) \cup SampleAmounts
TypeValues == {"FORECAST", "ACTUALS", "BOGUS"}

\* ---- the proleptic Gregorian calendar of datetime ----
IsLeap(y) == (y % 4 = 0) /\ ((y % 100 # 0) \/ (y % 400 = 0))

DaysInMonth(y, m) ==
    IF m = 2 THEN (IF IsLeap(y) THEN 29 ELSE 28)
    ELSE IF m \in {4, 6, 9, 11} THEN 30 ELSE 31

RECURSIVE DaysBeforeMonth(_, _)
DaysBeforeMonth(y, m) ==
    IF m = 1 THEN 0 ELSE DaysBeforeMonth(y, m - 1) + DaysInMonth(y, m - 1)

DaysBeforeYear(y) ==
    (y - 1) * 365 + ((y - 1) \div 4) - ((y - 1) \div 100) + ((y - 1) \div 400)

DaysInYear(y) == IF IsLeap(y) THEN 366 ELSE 365

\* date.toordinal(): 0001-01-01 is day 1
ToOrdinal(dt) == DaysBeforeYear(dt.y) + DaysBeforeMonth(dt.y, dt.m) + dt.d

\* date.fromordinal()
FromOrdinal(n) ==
    LET y == CHOOSE yy \in (BaseYear - 1) .. (BaseYear + NumYears + 1) :
                 DaysBeforeYear(yy) < n /\ n <= DaysBeforeYear(yy) + DaysInYear(yy)
        r == n - DaysBeforeYear(y)
        m == CHOOSE mm \in 1 .. 12 :
                 DaysBeforeMonth(y, mm) < r
                 /\ r <= DaysBeforeMonth(y, mm) + DaysInMonth(y, mm)
    IN  [y |-> y, m |-> m, d |-> r - DaysBeforeMonth(y, m)]

\* datetime.isoweekday(): Monday = 1 .. Sunday = 7
isoweekday(dt) == ((ToOrdinal(dt) + 6) % 7) + 1

\* dt + relativedelta(days=n)
AddDays(dt, n) == FromOrdinal(ToOrdinal(dt) + n)

\* dt + relativedelta(months=k) for k in {-1, 1}: the month moves, the year
\* carries, and the day is clipped to the length of the target month
AddMonths(dt, k) ==
    LET mm == dt.m + k
        y  == IF mm > 12 THEN dt.y + 1 ELSE IF mm < 1 THEN dt.y - 1 ELSE dt.y
        m  == IF mm > 12 THEN mm - 12 ELSE IF mm < 1 THEN mm + 12 ELSE mm
        dim == DaysInMonth(y, m)
    IN  [y |-> y, m |-> m, d |-> IF dt.d > dim THEN dim ELSE dt.d]

\* dt.replace(day=1)
ReplaceDay1(dt) == [dt EXCEPT !.d = 1]

\* ---- formatting ----
Digit(n) == <<"0", "1", "2", "3", "4", "5", "6", "7", "8", "9">>[n + 1]

RECURSIVE Dec(_)
\* decimal digits of a natural number
Dec(n) == IF n < 10 THEN Digit(n) ELSE Dec(n \div 10) \o Digit(n % 10)

Pad2(n) == Digit((n \div 10) % 10) \o Digit(n % 10)
Pad3(n) == Digit((n \div 100) % 10) \o Pad2(n)
Pad4(n) == Digit((n \div 1000) % 10) \o Pad3(n)

\* strftime("%Y-%m-%d")
StrfYmd(dt) == Pad4(dt.y) \o "-" \o Pad2(dt.m) \o "-" \o Pad2(dt.d)

\* strftime("%Y-%m-01"): the day field is the literal 01
StrfYm01(dt) == Pad4(dt.y) \o "-" \o Pad2(dt.m) \o "-01"

\* "{0:,.0f}".format(float(n)) for a natural n: groups of three digits
RECURSIVE Grouped(_)
Grouped(n) ==
    IF n < 1000 THEN Dec(n) ELSE Grouped(n \div 1000) \o "," \o Pad3(n % 1000)

\* ": ${0:,.0f}".format(float(amount)), for an integer amount
FormatAmount(amount) ==
    ": $" \o (IF amount < 0 THEN "-" \o Grouped(0 - amount) ELSE Grouped(amount))

Abs(i) == IF i < 0 THEN 0 - i ELSE i

\* the fraction r rounded to hundredths, half to even, as a count of hundredths
Hundredths(r) ==
    LET n == Abs(r.num) * 100
        d == Abs(r.den)
        q == n \div d
        rem == n % d
    IN  IF 2 * rem > d \/ (2 * rem = d /\ q % 2 = 1) THEN q + 1 ELSE q

\* sign of the fraction r
IsNegative(r) == (r.num < 0 /\ r.den > 0) \/ (r.num > 0 /\ r.den < 0)
IsPositive(r) == (r.num > 0 /\ r.den > 0) \/ (r.num < 0 /\ r.den < 0)

\* faulty variant of FormatPct: format "{0:.2f}", no sign for values >= 0
FormatPctNoSign(r) ==
    LET h == Hundredths(r)
    IN  " (" \o (IF IsNegative(r) THEN "-" ELSE "")
             \o Dec(h \div 100) \o "." \o Pad2(h % 100) \o "%)"

\* " ({0:+.2f}%)".format(pct_change): the sign is always printed
FormatPct(r) ==
    LET h == Hundredths(r)
    IN  " (" \o (IF IsNegative(r) THEN "-" ELSE "+")
             \o Dec(h \div 100) \o "." \o Pad2(h % 100) \o "%)"

\* ---- exceptions ----
Exc(cls, msg) == [cls |-> cls, msg |-> msg, code |-> 1]
\* sys.exit(code) raises SystemExit(code)
SystemExit(code) == [cls |-> "SystemExit", msg |-> "", code |-> code]
\* the error a failing billing query raises (a botocore ClientError)
QueryError == Exc("ClientError", "DataUnavailableException")

\* faulty variant of ExceptException: a bare `except:` matches everything
ExceptBaseException(cls) == cls \in {"Exception", "ClientError", "NameError", "SystemExit"}

\* `except Exception` matches the classes derived from Exception;
\* SystemExit derives from BaseException only
ExceptException(cls) == cls \in {"Exception", "ClientError", "NameError"}

\* exit status of the interpreter when exc leaves main()
ExitStatus(exc) == IF exc.cls = "SystemExit" THEN exc.code ELSE 1

\* names bound at module level when main() runs
GlobalNames ==
    {"argparse", "os", "sys", "logging", "boto3", "datetime", "relativedelta",
     "logger", "arg_parser", "get_cost_forecast", "get_cost_and_usage",
     "calc_forecast", "main"}

\* ---- the date windows of calc_forecast ----
\* faulty variant of ForecastStart: the weekend test is week_day >= 6
ForecastStartFridayAsWeekday(dt) ==
    LET week_day == isoweekday(dt)
    IN  IF week_day >= 6
        THEN LET days_check == 7 - isoweekday(dt) + 1
             IN  StrfYmd(AddDays(dt, days_check))
        ELSE StrfYmd(AddDays(dt, 1))

\* start of the forecast window
ForecastStart(dt) ==
    LET week_day == isoweekday(dt)
    IN  IF week_day >= 5
        THEN LET days_check == 7 - isoweekday(dt) + 1
             IN  StrfYmd(AddDays(dt, days_check))
        ELSE StrfYmd(AddDays(dt, 1))

\* faulty variant of ForecastEnd: 30 days added instead of one month
ForecastEndPlus30Days(dt) == StrfYm01(AddDays(dt, 30))

\* faulty variant of ForecastEnd: the month is not advanced
ForecastEndThisMonth(dt) == StrfYm01(dt)

\* end of the forecast window
ForecastEnd(dt) == StrfYm01(AddMonths(dt, 1))

\* window of the month-to-date fallback
MtdStart(dt) == StrfYmd(ReplaceDay1(dt))
MtdEnd(dt) == StrfYmd(dt)

\* faulty variant of FirstDayOfPriorMonth: replace(day=1) is missing
FirstDayOfPriorMonthNoReplace(dt) == StrfYmd(AddMonths(dt, -1))

\* window of the prior-month query
FirstDayOfPriorMonth(dt) == StrfYmd(ReplaceDay1(AddMonths(dt, -1)))
LastDayOfPreviousMonth(dt) == StrfYmd(AddDays(ReplaceDay1(dt), -1))

\* faulty variant of PctChange: the usual (current - prior) / prior
PctChangeNaive(prior, current) ==
    IF prior # 0
    THEN [num |-> (current - prior) * 100, den |-> prior]
    ELSE [num |-> 0, den |-> 1]

\* pct_change, as an exact fraction num/den
PctChange(prior, current) ==
    IF current # 0
    THEN [num |-> (current - prior) * 100, den |-> current]
    ELSE [num |-> 0, den |-> 1]

\* the line calc_forecast returns
ForecastLine(label, amount, pct) == label \o FormatAmount(amount) \o FormatPct(pct)

\* one outbound call to the Cost Explorer client, with its outcome: raised,
\* or the amount returned (0 is recorded for a call that raised)
Call(op, start, end, raised, amount) ==
    [op |-> op, Start |-> start, End |-> end, raised |-> raised, amount |-> amount]

\* ---- state ----
\* now, type: the inputs (clock date, --type).  pc: position in main().
\* The locals of calc_forecast keep their names; a local holds "" or 0 until
\* the code assigns it.  calls: the billing calls issued so far; stdout: the
\* print() outputs; caught: the exception bound by main's except clause;
\* uncaught: the exceptions the interpreter reports; exit: <<>> while the
\* process runs, <<status>> once it has exited.
VARIABLES now, type, pc, cost_type, start_time, end_time,
          current_month_forecast, first_day_of_prior_month,
          last_day_of_previous_month, prior_month_bill, pct_change, forecast,
          calls, stdout, caught, uncaught, exit

locals == <<cost_type, start_time, end_time, current_month_forecast,
            first_day_of_prior_month, last_day_of_previous_month,
            prior_month_bill, pct_change, forecast>>
vars == <<now, type, pc, locals, calls, stdout, caught, uncaught, exit>>

Init ==
    /\ now \in {[y |-> y, m |-> m, d |-> d] :
                   y \in Years, m \in 1 .. 12, d \in 1 .. 31}
    /\ now.d <= DaysInMonth(now.y, now.m)
    /\ type \in TypeValues
    /\ pc = "main"
    /\ cost_type = ""
    /\ start_time = ""
    /\ end_time = ""
    /\ current_month_forecast = 0
    /\ first_day_of_prior_month = ""
    /\ last_day_of_previous_month = ""
    /\ prior_month_bill = 0
    /\ pct_change = [num |-> 0, den |-> 1]
    /\ forecast = ""
    /\ calls = <<>>
    /\ stdout = <<>>
    /\ caught = <<>>
    /\ uncaught = <<>>
    /\ exit = <<>>

\* exc is raised inside main's try block
RaiseInTry(exc) ==
    IF ExceptException(exc.cls)
    THEN /\ pc' = "except"
         /\ caught' = <<exc>>
         /\ UNCHANGED <<uncaught, exit>>
    ELSE /\ pc' = "exited"
         /\ exit' = <<ExitStatus(exc)>>
         /\ uncaught' = IF exc.cls = "SystemExit" THEN <<>> ELSE <<exc>>
         /\ UNCHANGED caught

\* main: --type FORECAST; calc_forecast up to the forecast query
MainForecast ==
    /\ pc = "main"
    /\ type \in {"FORECAST"}
    /\ cost_type' = "Forecast"
    /\ start_time' = ForecastStart(now)
    /\ end_time' = ForecastEnd(now)
    /\ pc' = "forecast"
    /\ UNCHANGED <<now, type, current_month_forecast, first_day_of_prior_month,
                   last_day_of_previous_month, prior_month_bill, pct_change,
                   forecast, calls, stdout, caught, uncaught, exit>>

\* main: --type ACTUALS raises before calc_forecast is called
MainActuals ==
    /\ pc = "main"
    /\ type \notin {"FORECAST"}
    /\ type \in {"ACTUALS"}
    /\ RaiseInTry(Exc("Exception", "not implimented - ACTUALS"))
    /\ UNCHANGED <<now, type, locals, calls, stdout>>

\* main: any other --type prints the message and calls sys.exit(1)
MainInvalid ==
    /\ pc = "main"
    /\ type \notin {"FORECAST"}
    /\ type \notin {"ACTUALS"}
    /\ stdout' = Append(stdout,
         "Invalid run type: cmdline_params.type . Please choose from: FORECAST, ACTUALS")
    /\ RaiseInTry(SystemExit(1))
    /\ UNCHANGED <<now, type, locals, calls>>

\* get_cost_forecast returns an amount
ForecastOk ==
    /\ pc = "forecast"
    /\ \E amount \in Amounts :
          /\ current_month_forecast' = amount
          /\ calls' = Append(calls, Call("get_cost_forecast", start_time,
                                         end_time, FALSE, amount))
    /\ pc' = "prior"
    /\ UNCHANGED <<now, type, cost_type, start_time, end_time,
                   first_day_of_prior_month, last_day_of_previous_month,
                   prior_month_bill, pct_change, forecast, stdout, caught,
                   uncaught, exit>>

\* get_cost_forecast raises: warn and set up the month-to-date fallback
ForecastFail ==
    /\ pc = "forecast"
    /\ calls' = Append(calls, Call("get_cost_forecast", start_time, end_time,
                                   TRUE, 0))
    /\ stdout' = Append(stdout,
         "WARNING: Cannot forecast, falling back to Actuals, start_time= "
         \o start_time \o "  ,end_time= " \o end_time \o " \n")
    /\ start_time' = MtdStart(now)
    /\ end_time' = MtdEnd(now)
    /\ cost_type' = "Actuals(MTD - not enought data to forecast)"
    /\ pc' = "mtd"
    /\ UNCHANGED <<now, type, current_month_forecast, first_day_of_prior_month,
                   last_day_of_previous_month, prior_month_bill, pct_change,
                   forecast, caught, uncaught, exit>>

\* the fallback get_cost_and_usage returns an amount
MtdOk ==
    /\ pc = "mtd"
    /\ \E amount \in Amounts :
          /\ current_month_forecast' = amount
          /\ calls' = Append(calls, Call("get_cost_and_usage", start_time,
                                         end_time, FALSE, amount))
    /\ pc' = "prior"
    /\ UNCHANGED <<now, type, cost_type, start_time, end_time,
                   first_day_of_prior_month, last_day_of_previous_month,
                   prior_month_bill, pct_change, forecast, stdout, caught,
                   uncaught, exit>>

\* faulty variant of MtdFail: the function gives up on the prior-month query
MtdFailSkipsPrior ==
    /\ pc = "mtd"
    /\ calls' = Append(calls, Call("get_cost_and_usage", start_time, end_time,
                                   TRUE, 0))
    /\ cost_type' = "Error cannot calculate forecast"
    /\ current_month_forecast' = 0
    /\ stdout' = Append(stdout,
         "Exception calculating Current Month, start_time=" \o start_time
         \o " end_time=" \o end_time \o "\n " \o QueryError.msg)
    /\ pc' = "return"
    /\ UNCHANGED <<now, type, start_time, end_time, first_day_of_prior_month,
                   last_day_of_previous_month, prior_month_bill, pct_change,
                   forecast, caught, uncaught, exit>>

\* the fallback get_cost_and_usage raises too
MtdFail ==
    /\ pc = "mtd"
    /\ calls' = Append(calls, Call("get_cost_and_usage", start_time, end_time,
                                   TRUE, 0))
    /\ cost_type' = "Error cannot calculate forecast"
    /\ current_month_forecast' = 0
    /\ stdout' = Append(stdout,
         "Exception calculating Current Month, start_time=" \o start_time
         \o " end_time=" \o end_time \o "\n " \o QueryError.msg)
    /\ pc' = "prior"
    /\ UNCHANGED <<now, type, start_time, end_time, first_day_of_prior_month,
                   last_day_of_previous_month, prior_month_bill, pct_change,
                   forecast, caught, uncaught, exit>>

\* the prior-month get_cost_and_usage returns an amount
PriorOk ==
    /\ pc = "prior"
    /\ first_day_of_prior_month' = FirstDayOfPriorMonth(now)
    /\ last_day_of_previous_month' = LastDayOfPreviousMonth(now)
    /\ \E amount \in Amounts :
          /\ prior_month_bill' = amount
          /\ calls' = Append(calls, Call("get_cost_and_usage",
                                         first_day_of_prior_month',
                                         last_day_of_previous_month',
                                         FALSE, amount))
    /\ pc' = "return"
    /\ UNCHANGED <<now, type, cost_type, start_time, end_time,
                   current_month_forecast, pct_change, forecast, stdout,
                   caught, uncaught, exit>>

\* the prior-month get_cost_and_usage raises
PriorFail ==
    /\ pc = "prior"
    /\ first_day_of_prior_month' = FirstDayOfPriorMonth(now)
    /\ last_day_of_previous_month' = LastDayOfPreviousMonth(now)
    /\ calls' = Append(calls, Call("get_cost_and_usage",
                                   first_day_of_prior_month',
                                   last_day_of_previous_month', TRUE, 0))
    /\ prior_month_bill' = 0
    /\ stdout' = Append(stdout,
         "Error: Exception calculating Prior Month, first_day_of_prior_month="
         \o first_day_of_prior_month' \o " last_day_of_previous_month="
         \o last_day_of_previous_month' \o "\n " \o QueryError.msg)
    /\ pc' = "return"
    /\ UNCHANGED <<now, type, cost_type, start_time, end_time,
                   current_month_forecast, pct_change, forecast, caught,
                   uncaught, exit>>

\* calc_forecast computes pct_change and returns the line to main
Return ==
    /\ pc = "return"
    /\ pct_change' = PctChange(prior_month_bill, current_month_forecast)
    /\ forecast' = ForecastLine(cost_type, current_month_forecast, pct_change')
    /\ pc' = "print"
    /\ UNCHANGED <<now, type, cost_type, start_time, end_time,
                   current_month_forecast, first_day_of_prior_month,
                   last_day_of_previous_month, prior_month_bill, calls,
                   stdout, caught, uncaught, exit>>

\* main prints the line and leaves the try block; sys.exit(0) ends the run
PrintAndExit ==
    /\ pc = "print"
    /\ stdout' = Append(stdout, forecast)
    /\ pc' = "exited"
    /\ exit' = <<ExitStatus(SystemExit(0))>>
    /\ UNCHANGED <<now, type, locals, calls, caught, uncaught>>

\* main's except clause: the message needs the name traceback; with the
\* name unbound the f-string raises NameError inside the handler, nothing
\* is printed and the interpreter reports both exceptions
ExceptHandler ==
    /\ pc = "except"
    /\ IF "traceback" \in GlobalNames
       THEN /\ stdout' = Append(stdout,
                 "Error: " \o caught[1].msg \o "\n Traceback (most recent call last):")
            /\ exit' = <<ExitStatus(SystemExit(1))>>
            /\ UNCHANGED uncaught
       ELSE /\ uncaught' = <<caught[1],
                             Exc("NameError", "name 'traceback' is not defined")>>
            /\ exit' = <<ExitStatus(uncaught'[2])>>
            /\ UNCHANGED stdout
    /\ pc' = "exited"
    /\ UNCHANGED <<now, type, locals, calls, caught>>

Next ==
    \/ MainForecast
    \/ MainActuals
    \/ MainInvalid
    \/ ForecastOk
    \/ ForecastFail
    \/ MtdOk
    \/ MtdFail
    \/ PriorOk
    \/ PriorFail
    \/ Return
    \/ PrintAndExit
    \/ ExceptHandler

Spec == Init /\ [][Next]_vars

\* ---- calendar notions the properties are stated with ----
\* the day after dt, by the calendar
NextDay(dt) ==
    IF dt.d < DaysInMonth(dt.y, dt.m) THEN [dt EXCEPT !.d = dt.d + 1]
    ELSE IF dt.m < 12 THEN [y |-> dt.y, m |-> dt.m + 1, d |-> 1]
    ELSE [y |-> dt.y + 1, m |-> 1, d |-> 1]

RECURSIVE DaysLater(_, _)
DaysLater(dt, k) == IF k = 0 THEN dt ELSE DaysLater(NextDay(dt), k - 1)

\* the first Monday strictly after dt
FollowingMonday(dt) ==
    DaysLater(dt, CHOOSE k \in 1 .. 7 : isoweekday(DaysLater(dt, k)) = 1)

FirstOfNextMonth(dt) ==
    IF dt.m = 12 THEN [y |-> dt.y + 1, m |-> 1, d |-> 1]
    ELSE [y |-> dt.y, m |-> dt.m + 1, d |-> 1]

FirstOfPriorMonth(dt) ==
    IF dt.m = 1 THEN [y |-> dt.y - 1, m |-> 12, d |-> 1]
    ELSE [y |-> dt.y, m |-> dt.m - 1, d |-> 1]

LastOfPriorMonth(dt) ==
    LET f == FirstOfPriorMonth(dt) IN [f EXCEPT !.d = DaysInMonth(f.y, f.m)]

Before(a, b) ==
    \/ a.y < b.y
    \/ a.y = b.y /\ a.m < b.m
    \/ a.y = b.y /\ a.m = b.m /\ a.d < b.d

Calendar ==
    {dt \in [y : (BaseYear - 1) .. (BaseYear + NumYears + 1), m : 1 .. 12, d : 1 .. 31] :
        dt.d <= DaysInMonth(dt.y, dt.m)}

\* the date a YYYY-MM-DD string denotes
YmdTable == {<<StrfYmd(dt), dt>> : dt \in Calendar}
ParseYmd(str) == (CHOOSE p \in YmdTable : p[1] = str)[2]

\* the forecast query has been issued (it is always the first call)
ForecastIssued == Len(calls) >= 1 /\ calls[1].op = "get_cost_forecast"
\* calc_forecast has issued all its queries
QueriesDone == type = "FORECAST" /\ pc \in {"return", "print", "exited"}
ForecastFailed == ForecastIssued /\ calls[1].raised
MtdIssued == Len(calls) >= 2 /\ ForecastFailed
ErrorLine == "Error cannot calculate forecast: $0 (+0.00%)"
InvalidTypeLine ==
    "Invalid run type: cmdline_params.type . Please choose from: FORECAST, ACTUALS"

\* C1: the Start passed to the forecast query is tomorrow on ISO weekdays
\* 1..4 and the following Monday on ISO weekdays 5..7, across month and year
\* ends.
C1_ForecastStart ==
    /\ (pc = "forecast" => calls = <<>>)
    /\ (pc \in {"mtd", "prior"} => ForecastIssued)
    /\ ForecastIssued =>
          IF isoweekday(now) \in 1 .. 4
          THEN calls[1].Start = StrfYmd(NextDay(now))
          ELSE calls[1].Start = StrfYmd(FollowingMonday(now))

\* C1 witness: on Sunday 31 December the query starts on Monday 1 January of
\* the next year.
C1_Witness ==
    /\ ForecastIssued
    /\ isoweekday(now) = 7 /\ now.m = 12 /\ now.d = 31
    /\ calls[1].Start = StrfYmd([y |-> now.y + 1, m |-> 1, d |-> 1])

\* C2: the End passed to the forecast query is the 1st of the calendar month
\* after the current one, the year advancing in December.
C2_ForecastEnd ==
    /\ (pc \in {"mtd", "prior"} => ForecastIssued)
    /\ ForecastIssued => calls[1].End = StrfYmd(FirstOfNextMonth(now))

\* C2 witness: on 31 December the query ends on 1 January of the next year.
C2_Witness ==
    /\ ForecastIssued
    /\ now.m = 12 /\ now.d = 31
    /\ calls[1].End = Pad4(now.y + 1) \o "-01-01"

\* C3: when the forecast query fails and the month-to-date query succeeds the
\* returned line is labelled "Actuals(MTD - not enough data to forecast)" and
\* carries the month-to-date amount; the label is "Forecast" only when the
\* forecast query succeeded.
C3_FallbackLabel ==
    pc = "print" =>
        /\ (MtdIssued /\ ~calls[2].raised) =>
              forecast = "Actuals(MTD - not enough data to forecast)"
                         \o FormatAmount(calls[2].amount) \o FormatPct(pct_change)
        /\ cost_type = "Forecast" => ~calls[1].raised

\* C4: when the forecast and the month-to-date query both fail, the printed
\* line is "Error cannot calculate forecast: $0 (+0.00%)" whatever the
\* prior-month query does, and the exit status is 0.
C4_BothFail ==
    (type = "FORECAST" /\ MtdIssued /\ calls[2].raised) =>
        /\ pc \in {"prior", "return", "print", "exited"}
        /\ caught = <<>> /\ uncaught = <<>>
        /\ pc \in {"print", "exited"} => forecast = ErrorLine
        /\ pc = "exited" => stdout[Len(stdout)] = ErrorLine /\ exit = <<0>>

\* C4 witness: both current-period queries failed, the prior-month query
\* returned a non-zero amount, and the process has exited.
C4_Witness ==
    /\ pc = "exited" /\ MtdIssued /\ calls[2].raised
    /\ Len(calls) = 3 /\ ~calls[3].raised /\ calls[3].amount # 0
    /\ exit = <<0>>

\* C5: --type ACTUALS ends with exit status 1 through main's except clause:
\* the clause prints an "Error: ..." message with the stack trace and calls
\* exit(1); no exception escapes and no billing query is issued.
C5_ActualsHandled ==
    (type = "ACTUALS" /\ pc = "exited") =>
        /\ exit = <<1>>
        /\ calls = <<>>
        /\ caught = <<Exc("Exception", "not implimented - ACTUALS")>>
        /\ Len(stdout) = 1
        /\ uncaught = <<>>

\* C6: an unrecognised --type prints the invalid-run-type message and exits
\* with status 1; the SystemExit is not caught by the except clause, exit(0)
\* is not reached and no billing query is issued.
C6_InvalidType ==
    type \notin {"FORECAST", "ACTUALS"} =>
        /\ pc \in {"main", "exited"}
        /\ caught = <<>> /\ uncaught = <<>> /\ calls = <<>>
        /\ pc = "exited" => exit = <<1>> /\ stdout = <<InvalidTypeLine>>

\* C6 witness: a run with an unrecognised --type has exited with status 1.
C6_Witness ==
    /\ type = "BOGUS" /\ pc = "exited"
    /\ exit = <<1>> /\ stdout = <<InvalidTypeLine>>

\* C7 as stated: for any amounts with current # 0 the percentage is positive
\* when current exceeds prior and negative when it is lower.
C7_PctSign ==
    (pc = "print" /\ current_month_forecast # 0) =>
        /\ current_month_forecast > prior_month_bill => IsPositive(pct_change)
        /\ current_month_forecast < prior_month_bill => IsNegative(pct_change)

\* C7 amended: for current > 0 (and any prior, negative ones included) the
\* percentage is positive when current exceeds prior and negative when it is
\* lower.
C7_PctSignPositiveCurrent ==
    (pc = "print" /\ current_month_forecast > 0) =>
        /\ current_month_forecast > prior_month_bill => IsPositive(pct_change)
        /\ current_month_forecast < prior_month_bill => IsNegative(pct_change)

\* C7 witness: current 900 against prior 1000 gives a negative percentage,
\* printed as -11.11%.
C7_Witness ==
    /\ pc = "print"
    /\ current_month_forecast = 900 /\ prior_month_bill = 1000
    /\ IsNegative(pct_change)
    /\ forecast = cost_type \o ": $900 (-11.11%)"

\* C8 as stated: every FORECAST run issues exactly two billing calls, one
\* current-period call and then the prior-month call.
C8_TwoCalls ==
    QueriesDone =>
        /\ Len(calls) = 2
        /\ calls[2].Start = StrfYmd(FirstOfPriorMonth(now))

\* C8 amended: a FORECAST run issues two billing calls when the forecast query
\* succeeds and three when it fails (forecast, month-to-date actuals,
\* prior-month actuals), in that order, the prior-month call last.
C8_TwoOrThreeCalls ==
    QueriesDone =>
        /\ ForecastIssued
        /\ Len(calls) = IF calls[1].raised THEN 3 ELSE 2
        /\ \A i \in 2 .. Len(calls) : calls[i].op = "get_cost_and_usage"
        /\ calls[1].raised => calls[2].Start = StrfYmd([now EXCEPT !.d = 1])
                              /\ calls[2].End = StrfYmd(now)
        /\ calls[Len(calls)].Start = StrfYmd(FirstOfPriorMonth(now))

\* C8 witness: a run whose forecast query failed has finished with three
\* calls.
C8_Witness ==
    /\ pc = "exited" /\ type = "FORECAST"
    /\ Len(calls) = 3 /\ calls[1].raised /\ ~calls[2].raised

\* C9: on every path the prior-month query is issued exactly once, last, over
\* [first day of prior month, last day of prior month]; when it fails the
\* prior amount is 0; and calc_forecast returns a line, no exception leaving
\* it, whichever queries fail.
C9_PriorMonth ==
    type = "FORECAST" =>
        /\ pc # "except" /\ caught = <<>> /\ uncaught = <<>>
        /\ Cardinality({i \in 1 .. Len(calls) :
                           calls[i].Start = StrfYmd(FirstOfPriorMonth(now))})
              = IF QueriesDone THEN 1 ELSE 0
        /\ QueriesDone =>
              LET prior == calls[Len(calls)]
              IN  /\ prior.op = "get_cost_and_usage"
                  /\ prior.Start = StrfYmd(FirstOfPriorMonth(now))
                  /\ prior.End = StrfYmd(LastOfPriorMonth(now))
                  /\ prior.raised => prior_month_bill = 0
                  /\ ~prior.raised => prior_month_bill = prior.amount
        /\ pc \in {"print", "exited"} =>
              forecast = ForecastLine(cost_type, current_month_forecast, pct_change)
        /\ pc = "exited" => exit = <<0>> /\ stdout[Len(stdout)] = forecast

\* C9 witness: in January, with all three queries failing, the run has
\* returned its line and exited.
C9_Witness ==
    /\ pc = "exited" /\ type = "FORECAST" /\ now.m = 1
    /\ Len(calls) = 3 /\ calls[1].raised /\ calls[2].raised /\ calls[3].raised
    /\ calls[3].Start = Pad4(now.y - 1) \o "-12-01"
    /\ calls[3].End = Pad4(now.y - 1) \o "-12-31"
    /\ forecast = ErrorLine

\* C10 as stated: the window passed to the forecast query is never empty, its
\* Start is strictly earlier than its End.
C10_WindowNonEmpty ==
    (Len(calls) = 1 /\ ForecastIssued) =>
        Before(ParseYmd(calls[1].Start), ParseYmd(calls[1].End))

\* C10 amended: the Start is strictly earlier than the End exactly when the
\* Start (tomorrow, or the following Monday) still lies in the current month;
\* otherwise the Start is the End or later.
C10_NonEmptyWithinMonth ==
    (Len(calls) = 1 /\ ForecastIssued) =>
        LET start == ParseYmd(calls[1].Start)
            end == ParseYmd(calls[1].End)
        IN  /\ Before(start, end) <=> (start.y = now.y /\ start.m = now.m)
            /\ ~Before(start, end) => (start = end \/ Before(end, start))

\* C10 witness: on a Monday..Thursday that is the last day of its month the
\* window is empty, Start = End.
C10_Witness ==
    /\ Len(calls) = 1 /\ ForecastIssued
    /\ isoweekday(now) \in 1 .. 4 /\ now.d = DaysInMonth(now.y, now.m)
    /\ calls[1].Start = calls[1].End
====
